---- MODULE Spec2Model ----
(***************************************************************************)
(* A model of the two programs of the repository.                          *)
(*                                                                         *)
(* matrixRoute.MatrixHandler (src/matrixRoute/matrixMultiply.go): one HTTP *)
(* request is parsed, its two size fields validated, two random matrices   *)
(* generated and multiplied by one goroutine per output cell, whose        *)
(* results are summed through the buffered channel sumCh.  The same        *)
(* multiplication is modelled again for requests served concurrently.      *)
(*                                                                         *)
(* The wiki of package main (src/unnamed/part_000): makeHandler's routing  *)
(* guard, the view, edit and save handlers, and the index of titles that   *)
(* init builds and saveHandler extends.                                    *)
(*                                                                         *)
(* Strings are sequences of one-character strings.  Go indices are kept    *)
(* 0-based in the state; TLA+ sequences are indexed from 1, so a Go access *)
(* m[i] reads m[i + 1] here.  float64 values are modelled by integers.     *)
(***************************************************************************)
EXTENDS Integers, Sequences, FiniteSets, TLC

\* ------------------------------------------------------------------ bounds
\* The longest size string the model submits, in tokens.
MaxTokens == 4
\* Matrix entries are drawn from 0..MaxVal (rand.Float64() * 1e3, scaled).
MaxVal == 1
\* A multiplication is explored when both matrices together hold at most
\* this many entries.
MaxEntries == 6

\* --------------------------------------------------------------- constants
\* The repetition count of dotProduct's outer loop.
Repetitions == 100

\* The tokens and separators the submitted size strings are built from.
Tokens == { <<"0">>, <<"1">>, <<"2">>, <<"-", "1">>, <<"x">> }
Separators == { <<" ">>, <<",">>, <<",", " ">> }
\* Strings of separators only: non-empty, and no token.
BlankStrings == { <<" ">>, <<",">> }
\* The requests served at the same time, each in its own goroutine.
Requests == { 1, 2 }
\* The wiki's requests served at the same time.
WikiRequests == { 1, 2 }
\* The validated sizes of the requests served at the same time.
ValidSizes == { << <<1, 1>>, <<1, 1>> >>, << <<1, 1>>, <<1, 2>> >> }
\* The keys a submitted form may hold.
FormKeys == { "matASize", "matBSize" }
Vals == 0..MaxVal

\* ------------------------------------------------------------ the strings
RECURSIVE Join(_, _)
\* toks[1] sep toks[2] sep ... : the size string a client types.
Join(toks, sep) ==
    IF Len(toks) = 0 THEN <<>>
    ELSE IF Len(toks) = 1 THEN toks[1]
    ELSE toks[1] \o sep \o Join(Tail(toks), sep)

\* The size strings a client submits: up to MaxTokens tokens, separated.
UserInputs ==
    BlankStrings \cup
    UNION { { Join(toks, sep) : toks \in [1..k -> Tokens], sep \in Separators }
            : k \in 0..MaxTokens }

\* The size strings of two tokens.
PairInputs ==
    { Join(toks, sep) : toks \in [1..2 -> Tokens], sep \in Separators }

\* strings.Replace(s, old, new, -1) for one-character old and new.
Replace(s, old, new) ==
    [ n \in 1..Len(s) |-> IF s[n] = old THEN new ELSE s[n] ]

IsSpace(c) == c = " "

RECURSIVE FieldsFrom(_, _, _)
\* The fields of s from position n on; cur is the field being read.
FieldsFrom(s, n, cur) ==
    IF n > Len(s)
    THEN IF cur = <<>> THEN <<>> ELSE <<cur>>
    ELSE IF IsSpace(s[n])
         THEN IF cur = <<>> THEN FieldsFrom(s, n + 1, <<>>)
                            ELSE <<cur>> \o FieldsFrom(s, n + 1, <<>>)
         ELSE FieldsFrom(s, n + 1, Append(cur, s[n]))

\* strings.Fields: s split around runs of white space; no empty field.
Fields(s) == FieldsFrom(s, 1, <<>>)

DigitChars == { "0", "1", "2", "3", "4", "5", "6", "7", "8", "9" }

DigitVal(c) ==
    CASE c = "0" -> 0 [] c = "1" -> 1 [] c = "2" -> 2 [] c = "3" -> 3
      [] c = "4" -> 4 [] c = "5" -> 5 [] c = "6" -> 6 [] c = "7" -> 7
      [] c = "8" -> 8 [] c = "9" -> 9

RECURSIVE DigitsValue(_, _)
DigitsValue(ds, acc) ==
    IF ds = <<>> THEN acc
    ELSE DigitsValue(Tail(ds), acc * 10 + DigitVal(Head(ds)))

\* strconv.Atoi: an optional sign, then one or more decimal digits.
\* [err |-> TRUE] for anything else.  (The strings of the model are far
\* shorter than an int's range, so the range error does not arise.)
Atoi(tok) ==
    LET signed == Len(tok) > 0 /\ tok[1] \in { "+", "-" }
        ds     == IF signed THEN Tail(tok) ELSE tok
        valid  == Len(ds) > 0 /\ \A n \in 1..Len(ds) : ds[n] \in DigitChars
    IN  IF ~valid THEN [err |-> TRUE, val |-> 0]
        ELSE [err |-> FALSE,
              val |-> IF signed /\ tok[1] = "-" THEN 0 - DigitsValue(ds, 0)
                                                 ELSE DigitsValue(ds, 0)]

RECURSIVE ItoaNat(_)
ItoaNat(n) ==
    LET d == CHOOSE c \in DigitChars : DigitVal(c) = n % 10
    IN  IF n < 10 THEN <<d>> ELSE Append(ItoaNat(n \div 10), d)

\* fmt's %d.
Itoa(n) == IF n < 0 THEN <<"-">> \o ItoaNat(0 - n) ELSE ItoaNat(n)

\* ------------------------------------------------------------- the state
VARIABLES
    formErr,          \* ParseForm returned an error
    formKeys,         \* the keys of request.Form
    pc,               \* where MatrixHandler's goroutine stands
    response,         \* what has been written to the ResponseWriter
    matID,            \* processRequest: the loop's index
    found,            \* processRequest: "unread", "absent" or "present"
    userInputString,  \* processRequest: the field's string
    sizeValues,       \* processRequest: its tokens
    matSizes,         \* processRequest: the [2][2]int being filled
    ok,               \* processRequest's third result: "unset", "true", "false"
    errorMessage,     \* the errorMessage the handler holds; <<>> is ""
    isTrue,           \* canMultiply's first result: "unset", "true", "false"
    generated,        \* how many createMat calls have returned
    mat1, mat2,       \* createMatAndMultiply's matrices
    chanMade,         \* make(chan float64, n) has run
    chanCap,          \* cap(sumCh)
    sumCh,            \* the values buffered in sumCh, oldest first
    rowsOfMat1, colsOfMat2,
    spawnIdx,         \* <<mat1RowIdx, mat2ColIdx>> of the spawning loops
    tasks,            \* the dotProduct goroutines, in spawn order
    drainIdx,         \* <<i, j>> of the receiving loops
    sum,              \* matrixMultiply's sum
    result,           \* the result the handler formats
    chans,            \* concurrent requests: the channels made, by identity
    invocations,      \* concurrent requests: createMatAndMultiply's frames
    files,            \* wiki: the names of the files of the data directory
    availableWikiTitles,     \* wiki: the keys of the map
    availableTitlesPattern,  \* wiki: the string
    availableTitlesRegExp,   \* wiki: the expression the *Regexp was compiled from
    wikiRequests      \* wiki: the requests being served, one goroutine each

vars == << formErr, formKeys, pc, response, matID, found, userInputString,
           sizeValues, matSizes, ok, errorMessage, isTrue, generated, mat1,
           mat2, chanMade, chanCap, sumCh, rowsOfMat1, colsOfMat2, spawnIdx,
           tasks, drainIdx, sum, result, chans, invocations, files,
           availableWikiTitles, availableTitlesPattern, availableTitlesRegExp,
           wikiRequests >>

\* The package-level variables of the wiki, and its requests.
indexVars   == << availableWikiTitles, availableTitlesPattern,
                 availableTitlesRegExp >>
wikiVars    == << files, indexVars, wikiRequests >>
\* The one request of MatrixHandler modelled step by step.
handlerVars == << formErr, formKeys, pc, response, matID, found,
                 userInputString, sizeValues, matSizes, ok, errorMessage,
                 isTrue, generated, mat1, mat2, chanMade, chanCap, sumCh,
                 rowsOfMat1, colsOfMat2, spawnIdx, tasks, drainIdx, sum,
                 result >>
\* What the steps of the one request above leave alone.
otherVars   == << chans, invocations, wikiVars >>
requestVars == << formErr, formKeys >>
parseVars   == << matID, found, userInputString, sizeValues, matSizes, ok >>
matVars     == << generated, mat1, mat2 >>
chanVars    == << chanMade, chanCap, sumCh >>
loopVars    == << rowsOfMat1, colsOfMat2, spawnIdx, tasks, drainIdx, sum >>

\* createMatAndMultiply's frame before the call.
NoInvocation ==
    [ pc |-> "idle", mat1 |-> <<>>, mat2 |-> <<>>, sumCh |-> 0,
      rowsOfMat1 |-> 0, colsOfMat2 |-> 0, spawnIdx |-> <<0, 0>>,
      tasks |-> <<>>, drainIdx |-> <<0, 0>>, sum |-> 0, result |-> 0,
      received |-> <<>> ]

\* A wiki request before it arrives.
NoWikiRequest ==
    [ pc |-> "idle", handler |-> "none", path |-> <<>>, title |-> <<>>,
      calls |-> 0, response |-> [status |-> "none"],
      isAlreadyPresent |-> FALSE, pattern |-> <<>>, saveErr |-> FALSE ]

\* The wiki is not running.
WikiOff ==
    /\ files = {}
    /\ availableWikiTitles = {}
    /\ availableTitlesPattern = <<>>
    /\ availableTitlesRegExp = <<>>
    /\ wikiRequests = [ w \in WikiRequests |-> NoWikiRequest ]

\* No request is in createMatAndMultiply.
NoInvocations ==
    /\ chans = <<>>
    /\ invocations = [ r \in Requests |-> NoInvocation ]

Init ==
    /\ NoInvocations
    /\ WikiOff
    /\ formErr \in BOOLEAN
    /\ formKeys \in SUBSET FormKeys
    /\ pc = "ParseForm"
    /\ response = <<>>
    /\ matID = 0
    /\ found = "unread"
    /\ userInputString = <<>>
    /\ sizeValues = <<>>
    /\ matSizes = << <<0, 0>>, <<0, 0>> >>
    /\ ok = "unset"
    /\ errorMessage = <<>>
    /\ isTrue = "unset"
    /\ generated = 0
    /\ mat1 = <<>>
    /\ mat2 = <<>>
    /\ chanMade = FALSE
    /\ chanCap = 0
    /\ sumCh = <<>>
    /\ rowsOfMat1 = 0
    /\ colsOfMat2 = 0
    /\ spawnIdx = <<0, 0>>
    /\ tasks = <<>>
    /\ drainIdx = <<0, 0>>
    /\ sum = 0
    /\ result = 0

\* ------------------------------------------------------ MatrixHandler, top
\* request.ParseForm(), the page's top and form, and the two early exits.
ParseForm ==
    /\ pc = "ParseForm"
    /\ IF formErr
       THEN /\ response' = <<"pageTop", "form", "error", "pageBottom">>
            /\ pc' = "done"
       ELSE IF formKeys = {}
       THEN /\ response' = <<"pageTop", "form", "pageBottom">>
            /\ pc' = "done"
       ELSE /\ response' = <<"pageTop", "form">>
            /\ pc' = "processRequest"
    /\ UNCHANGED << otherVars, requestVars, parseVars, errorMessage, isTrue, matVars,
                    chanVars, loopVars, result >>

\* ---------------------------------------------------------- processRequest
FieldName(id) == IF id = 0 THEN "matASize" ELSE "matBSize"

ArityNone == << "2 numbers needed, 0 received" >>
ArityOne  == << "2 numbers needed, only 1 received" >>
InvalidInput(tok) == << tok, " is an invalid input" >>

RECURSIVE ConvertFrom(_, _, _)
\* The loop over sizeValues from index idx on; row is matSizes[matID].
\* Storing at index 2 or more of a [2]int is a run-time panic.
ConvertFrom(toks, idx, row) ==
    IF idx >= Len(toks) THEN [kind |-> "ok", row |-> row, msg |-> <<>>]
    ELSE LET a == Atoi(toks[idx + 1])
         IN  IF a.err
             THEN [kind |-> "fail", row |-> row,
                   msg |-> InvalidInput(toks[idx + 1])]
             ELSE IF idx >= 2
             THEN [kind |-> "panic", row |-> row, msg |-> <<>>]
             ELSE ConvertFrom(toks, idx + 1, [row EXCEPT ![idx + 1] = a.val])

\* One iteration of processRequest's loop for a field found with string s.
ProcessString(s, row) ==
    IF Len(s) > 0
    THEN LET toks == Fields(Replace(s, ",", " "))
         IN  IF Len(toks) < 2
             THEN [kind |-> "fail", row |-> row, msg |-> ArityOne]
             ELSE ConvertFrom(toks, 0, row)
    ELSE [kind |-> "fail", row |-> row, msg |-> ArityNone]

\* One iteration of processRequest's loop: the field matID is read (its
\* string is the client's choice) and converted.  slice[0] is evaluated
\* before found is tested: for an absent key slice is nil, and indexing it
\* is a run-time panic.  A failing iteration returns to the handler, which
\* writes the message and the page's bottom; the last iteration, passing,
\* returns the sizes.
ProcessFieldFrom(inputs) ==
    /\ pc = "processRequest"
    /\ IF FieldName(matID) \notin formKeys
       THEN /\ found' = "absent"
            /\ pc' = "panic"
            /\ UNCHANGED << matID, userInputString, sizeValues, matSizes, ok,
                            errorMessage, response >>
       ELSE \E s \in inputs :
              LET r == ProcessString(s, matSizes[matID + 1])
              IN  /\ matSizes' = [matSizes EXCEPT ![matID + 1] = r.row]
                  /\ CASE r.kind = "ok" ->
                            /\ found' = "unread"
                            /\ userInputString' = <<>>
                            /\ sizeValues' = <<>>
                            /\ errorMessage' = <<>>
                            /\ response' = response
                            /\ IF matID = 1
                               THEN /\ ok' = "true"
                                    /\ pc' = "canMultiply"
                                    /\ matID' = matID
                               ELSE /\ ok' = ok
                                    /\ pc' = pc
                                    /\ matID' = matID + 1
                       [] r.kind = "fail" ->
                            /\ found' = "present"
                            /\ userInputString' = s
                            /\ sizeValues' = Fields(Replace(s, ",", " "))
                            /\ errorMessage' = r.msg
                            /\ response' = response \o <<"error", "pageBottom">>
                            /\ ok' = "false"
                            /\ pc' = "done"
                            /\ matID' = matID
                       [] r.kind = "panic" ->
                            /\ found' = "present"
                            /\ userInputString' = s
                            /\ sizeValues' = Fields(Replace(s, ",", " "))
                            /\ errorMessage' = <<>>
                            /\ response' = response
                            /\ ok' = ok
                            /\ pc' = "panic"
                            /\ matID' = matID
    /\ UNCHANGED << otherVars, requestVars, isTrue, matVars, chanVars, loopVars, result >>

\* processRequest on a request whose size strings are any of UserInputs.
ProcessField == ProcessFieldFrom(UserInputs)

\* processRequest on a request whose size strings have two tokens: the only
\* strings it accepts (with fewer it returns the arity message, with more it
\* fails at the third), so the multiplications that follow are the same.
ProcessPair == ProcessFieldFrom(PairInputs)

\* ------------------------------------------------------------- canMultiply
MismatchMessage(matAsize, matBsize) ==
    << "matrix with size ", Itoa(matAsize[1]), " * ", Itoa(matAsize[2]),
       " cannot be multiplied with matrix of size ",
       Itoa(matBsize[1]), " * ", Itoa(matBsize[2]) >>

\* A bug canMultiply could have: the rows of both compared.
canMultiplyRows(matAsize, matBsize) ==
    IF matAsize[1] = matBsize[1]
    THEN [isTrue |-> TRUE, msg |-> <<>>]
    ELSE [isTrue |-> FALSE, msg |-> MismatchMessage(matAsize, matBsize)]

canMultiply(matAsize, matBsize) ==
    IF matAsize[2] = matBsize[1]
    THEN [isTrue |-> TRUE, msg |-> <<>>]
    ELSE [isTrue |-> FALSE, msg |-> MismatchMessage(matAsize, matBsize)]

\* A bug the handler could have: canMultiply's answer noted, and the
\* multiplication called whatever it is.
CanMultiplyUnchecked ==
    /\ pc = "canMultiply"
    /\ isTrue' = IF canMultiply(matSizes[1], matSizes[2]).isTrue
                 THEN "true" ELSE "false"
    /\ pc' = "createMatAndMultiply"
    /\ UNCHANGED << otherVars, requestVars, parseVars, matVars, chanVars, loopVars,
                    result, errorMessage, response >>

\* The handler with the sizes in hand: canMultiply, and on a mismatch the
\* message and the page's bottom.
CanMultiply ==
    /\ pc = "canMultiply"
    /\ LET r == canMultiply(matSizes[1], matSizes[2])
       IN  IF r.isTrue
           THEN /\ isTrue' = "true"
                /\ pc' = "createMatAndMultiply"
                /\ UNCHANGED << errorMessage, response >>
           ELSE /\ isTrue' = "false"
                /\ errorMessage' = r.msg
                /\ response' = response \o <<"error", "pageBottom">>
                /\ pc' = "done"
    /\ UNCHANGED << otherVars, requestVars, parseVars, matVars, chanVars, loopVars,
                    result >>

\* --------------------------------------------------------------- createMat
\* make with a negative length is a run-time panic: the rows, or the first
\* row's columns.
createMatPanics(matrixSize) ==
    \/ matrixSize[1] < 0
    \/ matrixSize[1] > 0 /\ matrixSize[2] < 0

\* The matrices createMat(matrixSize) may return: every entry is drawn from
\* the random source.
createMat(matrixSize) ==
    [1..matrixSize[1] -> [1..matrixSize[2] -> Vals]]

Entries(matrixSize) ==
    IF matrixSize[1] > 0 /\ matrixSize[2] > 0
    THEN matrixSize[1] * matrixSize[2] ELSE 0

\* timeit's closure calls createMatAndMultiply, which creates mat1.
CreateMat1 ==
    /\ pc = "createMatAndMultiply"
    /\ Entries(matSizes[1]) + Entries(matSizes[2]) <= MaxEntries
    /\ IF createMatPanics(matSizes[1])
       THEN /\ pc' = "panic"
            /\ UNCHANGED matVars
       ELSE /\ \E m \in createMat(matSizes[1]) : mat1' = m
            /\ generated' = 1
            /\ pc' = "createMat2"
            /\ UNCHANGED mat2
    /\ UNCHANGED << otherVars, requestVars, parseVars, errorMessage, isTrue, response,
                    chanVars, loopVars, result >>

CreateMat2 ==
    /\ pc = "createMat2"
    /\ IF createMatPanics(matSizes[2])
       THEN /\ pc' = "panic"
            /\ UNCHANGED matVars
       ELSE /\ \E m \in createMat(matSizes[2]) : mat2' = m
            /\ generated' = 2
            /\ pc' = "makeChan"
            /\ UNCHANGED mat1
    /\ UNCHANGED << otherVars, requestVars, parseVars, errorMessage, isTrue, response,
                    chanVars, loopVars, result >>

\* A bug ChanSize could have: room for one result per row.
ChanSizeRows(matAsize, matBsize) == matAsize[1]

\* make(chan float64, matAsize[0]*matBsize[1]); a negative size panics.
ChanSize(matAsize, matBsize) == matAsize[1] * matBsize[2]

MakeChan ==
    /\ pc = "makeChan"
    /\ IF ChanSize(matSizes[1], matSizes[2]) < 0
       THEN /\ pc' = "panic"
            /\ UNCHANGED chanVars
       ELSE /\ chanMade' = TRUE
            /\ chanCap' = ChanSize(matSizes[1], matSizes[2])
            /\ sumCh' = <<>>
            /\ pc' = "matrixMultiply"
    /\ UNCHANGED << otherVars, requestVars, parseVars, errorMessage, isTrue, response,
                    matVars, loopVars, result >>

\* ---------------------------------------------------------- matrixMultiply
\* The two nested loops of matrixMultiply run i over 0..rows-1 and, for each
\* i, j over 0..cols-1.  An index pair stands at the next body to run; a pair
\* whose first index has reached rows says that the loops have ended.
LoopDone(idx, rows) == idx[1] >= rows

FirstIteration(rows, cols) ==
    IF rows > 0 /\ cols <= 0 THEN <<rows, 0>> ELSE <<0, 0>>

NextIteration(idx, cols) ==
    IF idx[2] + 1 < cols THEN <<idx[1], idx[2] + 1>> ELSE <<idx[1] + 1, 0>>

\* A bug SpawnDone could have: mat1RowIdx < rowsOfMat1 - 1.
SpawnDoneEarly == spawnIdx[1] >= rowsOfMat1 - 1

\* mat1RowIdx < rowsOfMat1 fails: the spawning loops have ended.
SpawnDone == LoopDone(spawnIdx, rowsOfMat1)

\* A bug DrainDone could have: i < rowsOfMat1 - 1.
DrainDoneEarly == drainIdx[1] >= rowsOfMat1 - 1

\* i < rowsOfMat1 fails: the receiving loops have ended.
DrainDone == LoopDone(drainIdx, rowsOfMat1)

\* A bug ColsOf could have: len(mat2) for len(mat2[0]).
ColsOfRows(m2) == Len(m2)

\* len(mat1), and len(mat2[0]).
RowsOf(m1) == Len(m1)
ColsOf(m2) == Len(m2[1])

\* matrixMultiply is entered: its two lengths are taken.  mat2[0] of a
\* matrix without rows is a run-time panic.
MatrixMultiplyEnter ==
    /\ pc = "matrixMultiply"
    /\ IF Len(mat2) = 0
       THEN /\ pc' = "panic"
            /\ UNCHANGED loopVars
       ELSE /\ rowsOfMat1' = RowsOf(mat1)
            /\ colsOfMat2' = ColsOf(mat2)
            /\ spawnIdx' = FirstIteration(RowsOf(mat1), ColsOf(mat2))
            /\ drainIdx' = FirstIteration(RowsOf(mat1), ColsOf(mat2))
            /\ pc' = IF SpawnDone' THEN "drain" ELSE "spawn"
            /\ UNCHANGED << tasks, sum >>
    /\ UNCHANGED << otherVars, requestVars, parseVars, errorMessage, isTrue, response,
                    matVars, chanVars, result >>

\* go dotProduct(mat1, mat2, mat1RowIdx, mat2ColIdx, sumCh): one body of the
\* spawning loops.
Spawn ==
    /\ pc = "spawn"
    /\ ~SpawnDone
    /\ tasks' = Append(tasks, [row |-> spawnIdx[1], col |-> spawnIdx[2],
                                state |-> "running", result |-> 0])
    /\ spawnIdx' = NextIteration(spawnIdx, colsOfMat2)
    /\ UNCHANGED << otherVars, requestVars, parseVars, errorMessage, isTrue, response,
                    matVars, chanVars, rowsOfMat1, colsOfMat2, drainIdx, sum,
                    result >>
    /\ pc' = IF SpawnDone' THEN "drain" ELSE "spawn"

RECURSIVE RowTimesCol(_, _, _, _, _)
\* What one run of dotProduct's inner loop adds to result, from mat1ColIdx
\* on: mat1[mat1RowIdx][c] * mat2[c][mat2ColIdx] for every column c of the
\* row.
RowTimesCol(m1, m2, mat1RowIdx, mat2ColIdx, mat1ColIdx) ==
    IF mat1ColIdx >= Len(m1[mat1RowIdx + 1]) THEN 0
    ELSE m1[mat1RowIdx + 1][mat1ColIdx + 1] * m2[mat1ColIdx + 1][mat2ColIdx + 1]
         + RowTimesCol(m1, m2, mat1RowIdx, mat2ColIdx, mat1ColIdx + 1)

RECURSIVE Accumulate(_, _, _)
\* What the bodies lo .. hi-1 of dotProduct's outer loop add to result, each
\* of them one run of the inner loop, which adds run.  The range is summed
\* by halves, which adds the same terms as the loop does one after another.
Accumulate(run, lo, hi) ==
    IF hi <= lo THEN 0
    ELSE IF hi = lo + 1 THEN run
    ELSE IF hi = lo + 2 THEN run + run
    ELSE LET mid == (lo + hi) \div 2
         IN  Accumulate(run, lo, mid) + Accumulate(run, mid, hi)

\* The value dotProduct sends after reps repetitions.  Every run of the
\* inner loop reads the same row and column of the two matrices, which
\* nothing writes, and so adds the same amount.
dotProductOf(m1, m2, mat1RowIdx, mat2ColIdx, reps) ==
    CHOOSE total \in { Accumulate(run, 0, reps) :
                          run \in { RowTimesCol(m1, m2, mat1RowIdx, mat2ColIdx, 0) } } :
        TRUE

\* A bug dotProduct could have: the accumulation run once.
dotProductOnce(m1, m2, mat1RowIdx, mat2ColIdx) ==
    dotProductOf(m1, m2, mat1RowIdx, mat2ColIdx, 1)

\* The value dotProduct sends: k runs from 0 to 99.
dotProduct(m1, m2, mat1RowIdx, mat2ColIdx) ==
    dotProductOf(m1, m2, mat1RowIdx, mat2ColIdx, Repetitions)

\* A send on a buffered channel goes through while the buffer has room.
CanSend == Len(sumCh) < chanCap

\* The goroutine tasks[t] runs dotProduct to its end: sumCh <- result.
DotProduct(t) ==
    /\ t \in 1..Len(tasks)
    /\ tasks[t].state = "running"
    /\ CanSend
    /\ UNCHANGED << otherVars, requestVars, parseVars, errorMessage, isTrue, response,
                    matVars, chanMade, chanCap, rowsOfMat1, colsOfMat2,
                    spawnIdx, drainIdx, sum, result, pc >>
    /\ LET res == dotProduct(mat1, mat2, tasks[t].row, tasks[t].col)
       IN  /\ sumCh' = Append(sumCh, res)
           /\ tasks' = [tasks EXCEPT ![t] = [@ EXCEPT !.state = "done",
                                                       !.result = res]]

\* A bug Add could have: sum = v.
AddOverwrite(acc, v) == v

\* sum += v
Add(acc, v) == acc + v

\* A bug Drain could have: a receive that does not wait (a select with a
\* default case), adding nothing when the queue is empty.
DrainNoWait ==
    /\ pc = "drain"
    /\ ~DrainDone
    /\ IF sumCh = <<>>
       THEN UNCHANGED << sum, sumCh >>
       ELSE /\ sum' = Add(sum, Head(sumCh))
            /\ sumCh' = Tail(sumCh)
    /\ drainIdx' = NextIteration(drainIdx, colsOfMat2)
    /\ UNCHANGED << otherVars, requestVars, parseVars, errorMessage, isTrue, response,
                    matVars, chanMade, chanCap, rowsOfMat1, colsOfMat2,
                    spawnIdx, tasks, result, pc >>

\* sum += <-sumCh: one body of the receiving loops; it waits for a value.
Drain ==
    /\ pc = "drain"
    /\ ~DrainDone
    /\ sumCh # <<>>
    /\ sum' = Add(sum, Head(sumCh))
    /\ sumCh' = Tail(sumCh)
    /\ drainIdx' = NextIteration(drainIdx, colsOfMat2)
    /\ UNCHANGED << otherVars, requestVars, parseVars, errorMessage, isTrue, response,
                    matVars, chanMade, chanCap, rowsOfMat1, colsOfMat2,
                    spawnIdx, tasks, result, pc >>

\* A bug Return could have: a receive that gives up when the queue is empty
\* (a bounded wait), returning what has been summed so far.
ReturnOnEmpty ==
    /\ pc = "drain"
    /\ DrainDone \/ sumCh = <<>>
    /\ result' = sum
    /\ response' = response \o <<"result", "pageBottom">>
    /\ pc' = "done"
    /\ UNCHANGED << otherVars, requestVars, parseVars, errorMessage, isTrue, matVars,
                    chanVars, loopVars >>

\* The receiving loops have ended: matrixMultiply, createMatAndMultiply and
\* timeit's closure return, and the handler writes the result and the
\* page's bottom.
Return ==
    /\ pc = "drain"
    /\ DrainDone
    /\ result' = sum
    /\ response' = response \o <<"result", "pageBottom">>
    /\ pc' = "done"
    /\ UNCHANGED << otherVars, requestVars, parseVars, errorMessage, isTrue, matVars,
                    chanVars, loopVars >>

\* ------------------------------------------------------- the specification
\* The steps of matrixMultiply's own goroutine.
MatrixMultiply == Spawn \/ Drain \/ Return

\* The handler's steps around processRequest.
HandlerSteps ==
    \/ ParseForm
    \/ CanMultiply
    \/ CreateMat1
    \/ CreateMat2
    \/ MakeChan
    \/ MatrixMultiplyEnter
    \/ MatrixMultiply

Next ==
    \/ ProcessField
    \/ HandlerSteps
    \/ \E t \in 1..Len(tasks) : DotProduct(t)

Spec == Init /\ [][Next]_vars

\* The requests with two-token size strings, under the Go scheduler, which
\* runs every runnable goroutine again and again: the goroutine in
\* matrixMultiply and each dotProduct are weakly fair.
PairNext ==
    \/ ProcessPair
    \/ HandlerSteps
    \/ \E t \in 1..Len(tasks) : DotProduct(t)

FairSpec ==
    /\ Init /\ [][PairNext]_vars
    /\ WF_vars(MatrixMultiply)
    /\ \A t \in 1..MaxEntries : WF_vars(DotProduct(t))

\* The same requests when only the goroutine in matrixMultiply is sure to
\* run: a dotProduct goroutine may never reach its send.
AggregatorSpec ==
    /\ Init /\ [][PairNext]_vars
    /\ WF_vars(MatrixMultiply)

\* ------------------------------------------ requests served concurrently
\* net/http serves every request in a goroutine of its own.  What follows
\* is createMatAndMultiply and matrixMultiply again, once per request r, with
\* their locals in invocations[r]; a channel is an object of the heap, named
\* by its place in chans, and a value in it carries the request of the
\* goroutine that sent it.

\* A bug NewChan could have: sumCh a package-level channel, made once.
SharedChan(chs) == 1

\* make(chan float64, n) returns a channel no one else holds.
NewChan(chs) == Len(chs) + 1

\* The heap after a channel of capacity n was made at ch.
WithChan(chs, ch, n) ==
    IF ch \in 1..Len(chs) THEN chs
    ELSE Append(chs, [cap |-> n, buf |-> <<>>])

\* createMatAndMultiply(matAsize, matBsize) up to matrixMultiply's entry:
\* the two matrices, the channel, the two lengths.
CreateMatAndMultiply(r) ==
    /\ invocations[r].pc = "idle"
    /\ \E sizes \in ValidSizes :
       \E m1 \in createMat(sizes[1]), m2 \in createMat(sizes[2]) :
          LET ch   == NewChan(chans)
              rows == RowsOf(m1)
              cols == ColsOf(m2)
              idx  == FirstIteration(rows, cols)
          IN  /\ chans' = WithChan(chans, ch, ChanSize(sizes[1], sizes[2]))
              /\ invocations' =
                    [invocations EXCEPT ![r] =
                        [@ EXCEPT !.mat1 = m1, !.mat2 = m2, !.sumCh = ch,
                                  !.rowsOfMat1 = rows, !.colsOfMat2 = cols,
                                  !.spawnIdx = idx, !.drainIdx = idx,
                                  !.pc = IF LoopDone(idx, rows)
                                         THEN "drain" ELSE "spawn"]]
    /\ UNCHANGED << handlerVars, wikiVars >>

\* go dotProduct(mat1, mat2, mat1RowIdx, mat2ColIdx, sumCh) in request r.
SpawnIn(r) ==
    LET f    == invocations[r]
        next == NextIteration(f.spawnIdx, f.colsOfMat2)
    IN  /\ f.pc = "spawn"
        /\ ~LoopDone(f.spawnIdx, f.rowsOfMat1)
        /\ invocations' =
              [invocations EXCEPT ![r] =
                  [@ EXCEPT !.tasks = Append(@, [row |-> f.spawnIdx[1],
                                                 col |-> f.spawnIdx[2],
                                                 ch |-> f.sumCh,
                                                 state |-> "running",
                                                 result |-> 0]),
                            !.spawnIdx = next,
                            !.pc = IF LoopDone(next, f.rowsOfMat1)
                                   THEN "drain" ELSE "spawn"]]
        /\ UNCHANGED << handlerVars, wikiVars, chans >>

\* The goroutine tasks[t] of request r runs dotProduct to its end: it sends
\* on the channel it was given.
DotProductIn(r, t) ==
    LET f == invocations[r]
    IN  /\ t \in 1..Len(f.tasks)
        /\ f.tasks[t].state = "running"
        /\ Len(chans[f.tasks[t].ch].buf) < chans[f.tasks[t].ch].cap
        /\ UNCHANGED << handlerVars, wikiVars >>
        /\ LET res == dotProduct(f.mat1, f.mat2, f.tasks[t].row, f.tasks[t].col)
           IN  /\ chans' = [chans EXCEPT ![f.tasks[t].ch].buf =
                               Append(@, [val |-> res, from |-> r])]
               /\ invocations' =
                     [invocations EXCEPT ![r].tasks[t] =
                         [@ EXCEPT !.state = "done", !.result = res]]

\* sum += <-sumCh in request r.
DrainIn(r) ==
    LET f == invocations[r]
    IN  /\ f.pc = "drain"
        /\ ~LoopDone(f.drainIdx, f.rowsOfMat1)
        /\ chans[f.sumCh].buf # <<>>
        /\ chans' = [chans EXCEPT ![f.sumCh].buf = Tail(@)]
        /\ invocations' =
              [invocations EXCEPT ![r] =
                  [@ EXCEPT !.sum = Add(@, Head(chans[f.sumCh].buf).val),
                            !.received =
                                Append(@, Head(chans[f.sumCh].buf).from),
                            !.drainIdx = NextIteration(@, f.colsOfMat2)]]
        /\ UNCHANGED << handlerVars, wikiVars >>

\* matrixMultiply and createMatAndMultiply return in request r.
ReturnIn(r) ==
    LET f == invocations[r]
    IN  /\ f.pc = "drain"
        /\ LoopDone(f.drainIdx, f.rowsOfMat1)
        /\ invocations' =
              [invocations EXCEPT ![r] =
                  [@ EXCEPT !.result = f.sum, !.pc = "done"]]
        /\ UNCHANGED << handlerVars, wikiVars, chans >>

\* Any step of request r.
Invocation(r) ==
    \/ CreateMatAndMultiply(r)
    \/ SpawnIn(r)
    \/ \E t \in 1..Len(invocations[r].tasks) : DotProductIn(r, t)
    \/ DrainIn(r)
    \/ ReturnIn(r)

\* No form: the requests of this part come with their sizes validated.
ConcurrentInit == Init /\ ~formErr /\ formKeys = {}

ConcurrentNext == \E r \in Requests : Invocation(r)

ConcurrentSpec == ConcurrentInit /\ [][ConcurrentNext]_vars

\* ---------------------------------------------------------------- the wiki
\* The wiki of package main (src/unnamed/part_000).  A file of the data
\* directory is known by its name; what a page holds does not decide which
\* branch a handler takes and is left out.  Strings are sequences of
\* one-character strings, as above.

Letters ==
    { "a", "b", "c", "d", "e", "f", "g", "h", "i", "j", "k", "l", "m", "n",
      "o", "p", "q", "r", "s", "t", "u", "v", "w", "x", "y", "z",
      "A", "B", "C", "D", "E", "F", "G", "H", "I", "J", "K", "L", "M", "N",
      "O", "P", "Q", "R", "S", "T", "U", "V", "W", "X", "Y", "Z" }

\* [a-zA-Z0-9]
TitleChars == Letters \cup DigitChars

\* (edit|save|view)
PathKinds == { <<"e", "d", "i", "t">>, <<"s", "a", "v", "e">>,
               <<"v", "i", "e", "w">> }

\* What follows /view/, /edit/ or /save/ in the paths requested: two
\* titles, nothing, and three strings validPath does not accept.
PathRests == { <<"a">>, <<"b">>, <<>>, <<"a", "/", "b">>, <<"a", "-">>,
               <<".", "b">> }

\* The paths requested; ServeMux routes each to the handler registered for
\* its first segment.
Paths == { <<"/">> \o k \o <<"/">> \o rest : k \in PathKinds, rest \in PathRests }

\* The files the data directory may hold, in the order ReadDir lists them.
AllFiles == << <<"a", ".", "t", "x", "t">>, <<"b", ".", "t", "x", "t">> >>

\* title + ".txt"
FileName(title) == title \o <<".", "t", "x", "t">>

RECURSIVE SplitFrom(_, _, _, _)
\* The pieces of s around the separator sep from position n on; cur is the
\* piece being read.
SplitFrom(s, sep, n, cur) ==
    IF n > Len(s) THEN <<cur>>
    ELSE IF s[n] = sep THEN <<cur>> \o SplitFrom(s, sep, n + 1, <<>>)
    ELSE SplitFrom(s, sep, n + 1, Append(cur, s[n]))

\* strings.Split(s, sep) for a one-character sep.
Split(s, sep) == SplitFrom(s, sep, 1, <<>>)

\* The position of the first c in s at or after n; Len(s) + 1 without one.
RECURSIVE IndexFrom(_, _, _)
IndexFrom(s, c, n) ==
    IF n > Len(s) \/ s[n] = c THEN n ELSE IndexFrom(s, c, n + 1)

\* The longest prefix of s made of title characters.
RECURSIVE TitlePrefix(_)
TitlePrefix(s) ==
    IF s = <<>> \/ Head(s) \notin TitleChars THEN <<>>
    ELSE <<Head(s)>> \o TitlePrefix(Tail(s))

\* A bug validPath could have: the expression without its closing $, which
\* accepts any path that begins as a valid one.
FindStringSubmatchUnanchored(path) ==
    LET second == IndexFrom(path, "/", 2)
        kind   == SubSeq(path, 2, second - 1)
        title  == TitlePrefix(SubSeq(path, second + 1, Len(path)))
    IN  IF /\ Len(path) > 0 /\ path[1] = "/"
           /\ second <= Len(path)
           /\ kind \in PathKinds
           /\ title # <<>>
        THEN << <<"/">> \o kind \o <<"/">> \o title, kind, title >>
        ELSE <<>>

\* validPath.FindStringSubmatch(path) for ^/(edit|save|view)/([a-zA-Z0-9]+)$:
\* the match and its two groups, or the empty sequence for nil.
FindStringSubmatch(path) ==
    LET second == IndexFrom(path, "/", 2)
        kind   == SubSeq(path, 2, second - 1)
        title  == SubSeq(path, second + 1, Len(path))
    IN  IF /\ Len(path) > 0 /\ path[1] = "/"
           /\ second <= Len(path)
           /\ kind \in PathKinds
           /\ title # <<>>
           /\ \A n \in 1..Len(title) : title[n] \in TitleChars
        THEN << path, kind, title >>
        ELSE <<>>

\* main's registrations: the handler ServeMux picks for a path.
Route(path) ==
    LET kind == SubSeq(path, 2, IndexFrom(path, "/", 2) - 1)
    IN  IF kind = <<"v", "i", "e", "w">> THEN "viewHandler"
        ELSE IF kind = <<"e", "d", "i", "t">> THEN "editHandler"
        ELSE "saveHandler"

\* ioutil.ReadDir: the names of the files, sorted.
ReadDir(fs) == SelectSeq(AllFiles, LAMBDA name : name \in fs)

RECURSIVE InitLoop(_, _, _)
\* init's loop over the files from position n on.
InitLoop(names, n, acc) ==
    IF n > Len(names) THEN acc
    ELSE LET title == Split(names[n], ".")[1]
         IN  InitLoop(names, n + 1,
                      [pattern |-> acc.pattern \o title \o <<"|">>,
                       titles  |-> acc.titles \cup { title }])

\* regexp.MustCompile("(" + pattern + ")"): the expression compiled.
Compile(pattern) == <<"(">> \o pattern \o <<")">>

\* The package-level variables as init leaves them, for a data directory
\* holding the files fs (at least one: with none the slice expression of
\* line 188 panics and the program does not start).
init(fs) ==
    LET looped  == InitLoop(ReadDir(fs), 1, [pattern |-> <<>>, titles |-> {}])
        pattern == SubSeq(looped.pattern, 1, Len(looped.pattern) - 1)
    IN  [pattern |-> pattern, titles |-> looped.titles,
         regexp |-> Compile(pattern)]

\* The wiki after init, before its first request.
WikiInit ==
    /\ \E fs \in (SUBSET { AllFiles[n] : n \in 1..Len(AllFiles) }) \ { {} } :
          /\ files = fs
          /\ availableWikiTitles = init(fs).titles
          /\ availableTitlesPattern = init(fs).pattern
          /\ availableTitlesRegExp = init(fs).regexp
    /\ wikiRequests = [ w \in WikiRequests |-> NoWikiRequest ]
    /\ NoInvocations
    /\ formErr = FALSE /\ formKeys = {} /\ pc = "ParseForm" /\ response = <<>>
    /\ matID = 0 /\ found = "unread" /\ userInputString = <<>>
    /\ sizeValues = <<>> /\ matSizes = << <<0, 0>>, <<0, 0>> >>
    /\ ok = "unset" /\ errorMessage = <<>> /\ isTrue = "unset"
    /\ generated = 0 /\ mat1 = <<>> /\ mat2 = <<>>
    /\ chanMade = FALSE /\ chanCap = 0 /\ sumCh = <<>>
    /\ rowsOfMat1 = 0 /\ colsOfMat2 = 0 /\ spawnIdx = <<0, 0>>
    /\ tasks = <<>> /\ drainIdx = <<0, 0>> /\ sum = 0 /\ result = 0

\* What the steps of the wiki leave alone.
notWikiVars == << handlerVars, chans, invocations >>

\* A request arrives and ServeMux hands it to the closure makeHandler
\* returned for its handler.
Serve(w) ==
    /\ wikiRequests[w].pc = "idle"
    /\ \E path \in Paths :
          wikiRequests' = [wikiRequests EXCEPT ![w] =
              [@ EXCEPT !.path = path, !.handler = Route(path),
                        !.pc = "makeHandler"]]
    /\ UNCHANGED << notWikiVars, files, indexVars >>

\* The closure of makeHandler: http.NotFound for a path validPath does not
\* match, and otherwise fn(w, r, match[2]).
MakeHandler(w) ==
    LET q     == wikiRequests[w]
        match == FindStringSubmatch(q.path)
    IN  /\ q.pc = "makeHandler"
        /\ wikiRequests' = [wikiRequests EXCEPT ![w] =
              IF match = <<>>
              THEN [@ EXCEPT !.response = [status |-> "NotFound"],
                             !.pc = "done"]
              ELSE [@ EXCEPT !.title = match[3], !.calls = @ + 1,
                             !.pc = q.handler]]
        /\ UNCHANGED << notWikiVars, files, indexVars >>

\* load(title): ReadFile fails for a file the directory does not hold.
load(title, fs) ==
    IF FileName(title) \in fs
    THEN [err |-> FALSE, Title |-> title]
    ELSE [err |-> TRUE, Title |-> <<>>]

\* A bug viewHandler could have: editHandler's branch, an empty page for a
\* page that does not load.
viewHandlerAsEdit(title, fs) ==
    [status |-> "OK", template |-> "view.html", Title |-> title]

\* viewHandler's response: the redirect to /edit/title when the page does
\* not load, the view template otherwise.
viewHandler(title, fs) ==
    IF load(title, fs).err
    THEN [status |-> "Found",
          location |-> <<"/", "e", "d", "i", "t", "/">> \o title]
    ELSE [status |-> "OK", template |-> "view.html",
          Title |-> load(title, fs).Title]

ViewHandler(w) ==
    /\ wikiRequests[w].pc = "viewHandler"
    /\ wikiRequests' = [wikiRequests EXCEPT ![w] =
          [@ EXCEPT !.response = viewHandler(wikiRequests[w].title, files),
                    !.pc = "done"]]
    /\ UNCHANGED << notWikiVars, files, indexVars >>

\* editHandler: the edit template, for the page loaded or an empty one.
EditHandler(w) ==
    /\ wikiRequests[w].pc = "editHandler"
    /\ wikiRequests' = [wikiRequests EXCEPT ![w] =
          [@ EXCEPT !.response = [status |-> "OK", template |-> "edit.html",
                                  Title |-> wikiRequests[w].title],
                    !.pc = "done"]]
    /\ UNCHANGED << notWikiVars, files, indexVars >>

\* The files after p.save() failed: WriteFile creates the file before it
\* writes, so a failed write may leave it behind.
AfterFailedWrite(title, fs) == { fs, fs \cup { FileName(title) } }

\* A bug saveHandler could have: no return after http.Error.
SaveNoReturn(w) ==
    LET q == wikiRequests[w]
    IN  /\ q.pc = "saveHandler"
        /\ \/ /\ files' = files \cup { FileName(q.title) }
              /\ wikiRequests' = [wikiRequests EXCEPT ![w].pc = "isAlreadyPresent"]
           \/ /\ files' \in AfterFailedWrite(q.title, files)
              /\ wikiRequests' = [wikiRequests EXCEPT ![w] =
                    [@ EXCEPT !.saveErr = TRUE,
                              !.response = [status |-> "InternalServerError"],
                              !.pc = "isAlreadyPresent"]]
        /\ UNCHANGED << notWikiVars, indexVars >>

\* saveHandler to its first return: newPageData.save(), and http.Error when
\* it fails.
Save(w) ==
    LET q == wikiRequests[w]
    IN  /\ q.pc = "saveHandler"
        /\ \/ /\ files' = files \cup { FileName(q.title) }
              /\ wikiRequests' = [wikiRequests EXCEPT ![w].pc = "isAlreadyPresent"]
           \/ /\ files' \in AfterFailedWrite(q.title, files)
              /\ wikiRequests' = [wikiRequests EXCEPT ![w] =
                    [@ EXCEPT !.saveErr = TRUE,
                              !.response = [status |-> "InternalServerError"],
                              !.pc = "done"]]
        /\ UNCHANGED << notWikiVars, indexVars >>

\* isAlreadyPresent := availableWikiTitles[title]
IsAlreadyPresent(w) ==
    LET q == wikiRequests[w]
    IN  /\ q.pc = "isAlreadyPresent"
        /\ wikiRequests' = [wikiRequests EXCEPT ![w] =
              [@ EXCEPT !.isAlreadyPresent = q.title \in availableWikiTitles,
                        !.pc = IF q.title \in availableWikiTitles
                               THEN "redirect" ELSE "updateWikiTitleList"]]
        /\ UNCHANGED << notWikiVars, files, indexVars >>

\* updateWikiTitleList(title)
UpdateWikiTitleList(w) ==
    /\ wikiRequests[w].pc = "updateWikiTitleList"
    /\ availableWikiTitles' = availableWikiTitles \cup { wikiRequests[w].title }
    /\ wikiRequests' = [wikiRequests EXCEPT ![w].pc = "readPattern"]
    /\ UNCHANGED << notWikiVars, files, availableTitlesPattern,
                    availableTitlesRegExp >>

\* updateWikiTitlesRexEx, line 167: += reads the string ...
ReadPattern(w) ==
    /\ wikiRequests[w].pc = "readPattern"
    /\ wikiRequests' = [wikiRequests EXCEPT ![w] =
          [@ EXCEPT !.pattern = availableTitlesPattern, !.pc = "writePattern"]]
    /\ UNCHANGED << notWikiVars, files, indexVars >>

\* ... and writes it back with "|" and the title appended.
WritePattern(w) ==
    LET q == wikiRequests[w]
    IN  /\ q.pc = "writePattern"
        /\ availableTitlesPattern' = q.pattern \o <<"|">> \o q.title
        /\ wikiRequests' = [wikiRequests EXCEPT ![w].pc = "compile"]
        /\ UNCHANGED << notWikiVars, files, availableWikiTitles,
                        availableTitlesRegExp >>

\* updateWikiTitlesRexEx, line 168.
CompileTitles(w) ==
    /\ wikiRequests[w].pc = "compile"
    /\ availableTitlesRegExp' = Compile(availableTitlesPattern)
    /\ wikiRequests' = [wikiRequests EXCEPT ![w].pc = "redirect"]
    /\ UNCHANGED << notWikiVars, files, availableWikiTitles,
                    availableTitlesPattern >>

\* http.Redirect(w, r, "/view/"+title, http.StatusFound)
RedirectToView(w) ==
    /\ wikiRequests[w].pc = "redirect"
    /\ wikiRequests' = [wikiRequests EXCEPT ![w] =
          [@ EXCEPT !.response =
                        [status |-> "Found",
                         location |-> <<"/", "v", "i", "e", "w", "/">>
                                      \o wikiRequests[w].title],
                    !.pc = "done"]]
    /\ UNCHANGED << notWikiVars, files, indexVars >>

\* The steps of saveHandler.
SaveHandler(w) ==
    \/ Save(w)
    \/ IsAlreadyPresent(w)
    \/ UpdateWikiTitleList(w)
    \/ ReadPattern(w)
    \/ WritePattern(w)
    \/ CompileTitles(w)
    \/ RedirectToView(w)

\* net/http serves the requests in a goroutine each: their steps interleave.
WikiNext ==
    \E w \in WikiRequests :
        \/ Serve(w)
        \/ MakeHandler(w)
        \/ ViewHandler(w)
        \/ EditHandler(w)
        \/ SaveHandler(w)

WikiSpec == WikiInit /\ [][WikiNext]_vars

\* ------------------------------------------------------ what the claims use
\* matrixMultiply has been entered, and has not panicked.
Multiplying == pc \in { "spawn", "drain" } \/ (pc = "done" /\ isTrue = "true")

\* matrixMultiply has returned and the handler has written its result.
Returned == pc = "done" /\ isTrue = "true"

\* The output shape, read off the two matrices.
OutRows == Len(mat1)
OutCols == Len(mat2[1])

Enqueued == Cardinality({ t \in 1..Len(tasks) : tasks[t].state = "done" })
Drained  == drainIdx[1] * colsOfMat2 + drainIdx[2]

RECURSIVE SeqSum(_)
SeqSum(q) == IF q = <<>> THEN 0 ELSE Head(q) + SeqSum(Tail(q))

RECURSIVE InnerProduct(_, _, _)
\* Row i of mat1 times column j of mat2 (0-based), over the columns 1..c.
InnerProduct(i, j, c) ==
    IF c = 0 THEN 0
    ELSE mat1[i + 1][c] * mat2[c][j + 1] + InnerProduct(i, j, c - 1)

TrueDot(i, j) == InnerProduct(i, j, Len(mat2))

RECURSIVE TrueTotalUpTo(_)
\* The sum of TrueDot over the first n cells of the output, row by row.
TrueTotalUpTo(n) ==
    IF n = 0 THEN 0
    ELSE TrueDot((n - 1) \div OutCols, (n - 1) % OutCols) + TrueTotalUpTo(n - 1)

RECURSIVE CellsTotalUpTo(_)
\* The sum of what dotProduct sends for the first n cells of the output.
CellsTotalUpTo(n) ==
    IF n = 0 THEN 0
    ELSE dotProduct(mat1, mat2, (n - 1) \div OutCols, (n - 1) % OutCols)
         + CellsTotalUpTo(n - 1)

RECURSIVE DoneTotalUpTo(_)
\* The sum of the results of the first n goroutines that have sent.
DoneTotalUpTo(n) ==
    IF n = 0 THEN 0
    ELSE (IF tasks[n].state = "done" THEN tasks[n].result ELSE 0)
         + DoneTotalUpTo(n - 1)

\* ------------------------------------------------------------------ claims
\* C1: for matrices A (m rows) and B (p columns) with m, p >= 1,
\* matrixMultiply spawns exactly m*p dotProduct tasks: every spawned task has
\* a coordinate (i, j) of the output, no coordinate is spawned twice, and
\* once the spawning loops have ended every coordinate has its task.
C1_OneTaskPerCell ==
    (Multiplying /\ OutRows >= 1 /\ OutCols >= 1) =>
        /\ \A t \in 1..Len(tasks) :
              /\ tasks[t].row \in 0..(OutRows - 1)
              /\ tasks[t].col \in 0..(OutCols - 1)
        /\ \A t, u \in 1..Len(tasks) :
              (tasks[t].row = tasks[u].row /\ tasks[t].col = tasks[u].col)
                  => t = u
        /\ Len(tasks) <= OutRows * OutCols
        /\ pc # "spawn" =>
              /\ Len(tasks) = OutRows * OutCols
              /\ \A i \in 0..(OutRows - 1), j \in 0..(OutCols - 1) :
                    \E t \in 1..Len(tasks) :
                        tasks[t].row = i /\ tasks[t].col = j

C1_Witness ==
    /\ pc = "drain"
    /\ OutRows = 2 /\ OutCols = 2
    /\ Len(tasks) = 4

\* C2: at every state of a multiplication drained <= enqueued <= m*p, the
\* queue holds the difference, and when matrixMultiply has returned exactly
\* m*p scalars have been enqueued, exactly m*p drained, and the queue is
\* empty.
C2_CountedDrain ==
    Multiplying =>
        /\ Drained <= Enqueued
        /\ Enqueued <= OutRows * OutCols
        /\ Len(sumCh) = Enqueued - Drained
        /\ Returned =>
              /\ Enqueued = OutRows * OutCols
              /\ Drained = OutRows * OutCols
              /\ sumCh = <<>>

C2_Witness ==
    /\ Returned
    /\ OutRows * OutCols = 4
    /\ Enqueued = 4 /\ Drained = 4

\* C3: the counted drain is a barrier: matrixMultiply has returned only when
\* every spawned dotProduct has sent its result.
C3_Barrier ==
    Returned =>
        /\ Len(tasks) = OutRows * OutCols
        /\ \A t \in 1..Len(tasks) : tasks[t].state = "done"

C3_Witness ==
    /\ Returned
    /\ Len(tasks) = 4
    /\ sumCh = <<>>
    /\ \A t \in 1..Len(tasks) : tasks[t].state = "done"

\* C4: for valid dimensions, under fair scheduling of the handler and of
\* every spawned task, a multiplication that has started returns, and no
\* state of it is a deadlock.
C4_Returns ==
    /\ [](pc \in { "spawn", "drain" } => ENABLED PairNext)
    /\ (pc \in { "spawn", "drain" }) ~> Returned

C4_Witness ==
    /\ Returned
    /\ OutRows = 2 /\ OutCols = 2
    /\ Len(tasks) = 4

\* C5: the task of cell (i, j) publishes Repetitions times the dot product of
\* row i of A and column j of B, k repetitions give k times one repetition,
\* and the total matrixMultiply returns is Repetitions times the sum of the
\* dot products of all cells.
C5_ScaledDotProduct ==
    Multiplying =>
        /\ \A t \in 1..Len(tasks) :
              /\ tasks[t].state = "done" =>
                    tasks[t].result
                        = Repetitions * TrueDot(tasks[t].row, tasks[t].col)
              /\ dotProductOf(mat1, mat2, tasks[t].row, tasks[t].col, Repetitions)
                    = Repetitions
                      * dotProductOf(mat1, mat2, tasks[t].row, tasks[t].col, 1)
        /\ Returned =>
              result = Repetitions * TrueTotalUpTo(OutRows * OutCols)

C5_Witness ==
    /\ Returned
    /\ Len(tasks) = 4
    /\ result >= 2 * Repetitions

\* C6: the total is independent of the order in which results arrive: at
\* every state the sum and the queued values add up to what the finished
\* tasks have sent, and the returned total is the sum over the cells of what
\* dotProduct computes for the two matrices, whatever the interleaving.
C6_OrderIndependent ==
    Multiplying =>
        /\ sum + SeqSum(sumCh) = DoneTotalUpTo(Len(tasks))
        /\ Returned => result = CellsTotalUpTo(OutRows * OutCols)

\* The second task's result was received while the first has not yet sent.
C6_Witness ==
    /\ pc = "drain"
    /\ Len(tasks) >= 2
    /\ tasks[1].state = "running"
    /\ tasks[2].state = "done"
    /\ Drained >= 1
    /\ sum > 0

\* The tokens of the string processRequest stopped at.
TokensRead == Fields(Replace(userInputString, ",", " "))

\* processRequest has ended, by a return or a panic, at the field matID.
StoppedAtField ==
    \/ found = "absent"
    \/ found = "present"

\* The positions of TokensRead that are no integers.
BadTokens == { n \in 1..Len(TokensRead) : Atoi(TokensRead[n]).err }

\* C7: for sizes with a.cols # b.rows canMultiply fails with the message that
\* states both shapes, and no matrix, queue or task is ever created; for
\* sizes with a.cols = b.rows it succeeds with no message.
C7_CanMultiply ==
    isTrue # "unset" =>
        IF matSizes[1][2] # matSizes[2][1]
        THEN /\ isTrue = "false"
             /\ errorMessage =
                   << "matrix with size ", Itoa(matSizes[1][1]), " * ",
                      Itoa(matSizes[1][2]),
                      " cannot be multiplied with matrix of size ",
                      Itoa(matSizes[2][1]), " * ", Itoa(matSizes[2][2]) >>
             /\ pc = "done"
             /\ response = <<"pageTop", "form", "error", "pageBottom">>
             /\ generated = 0 /\ ~chanMade /\ tasks = <<>>
        ELSE /\ isTrue = "true"
             /\ errorMessage = <<>>

C7_Witness ==
    /\ isTrue = "false"
    /\ matSizes = << <<2, 1>>, <<2, 2>> >>

\* C8: validation precedes all concurrent work: whenever a matrix has been
\* generated, the queue made or a task spawned, processRequest and
\* canMultiply have both returned success; a request that failed a
\* validation step has no matrix, no queue and no task.
C8_ValidationFirst ==
    /\ (generated > 0 \/ chanMade \/ tasks # <<>>
        \/ pc \in { "createMat2", "makeChan", "matrixMultiply", "spawn", "drain" })
           => (ok = "true" /\ isTrue = "true" /\ errorMessage = <<>>)
    /\ (ok # "true" \/ isTrue # "true" \/ errorMessage # <<>>)
           => (generated = 0 /\ ~chanMade /\ tasks = <<>> /\ sumCh = <<>>)

C8_Witness ==
    /\ pc = "spawn"
    /\ generated = 2 /\ chanMade /\ Len(tasks) >= 1
    /\ ok = "true" /\ isTrue = "true"

\* C9: a size field that is absent from the form, empty, or yields fewer
\* than 2 tokens makes processRequest return a failure with the arity
\* message.
C9_ArityError ==
    (StoppedAtField /\ (found = "absent" \/ Len(TokensRead) < 2)) =>
        /\ pc = "done"
        /\ ok = "false"
        /\ errorMessage \in { ArityNone, ArityOne }

\* C10: a size string with a token that is no integer makes processRequest
\* return a failure with the message naming the token (stated here for the
\* strings of two or more tokens; with fewer the arity message of C9 comes
\* first).
C10_ParseErrorNamed ==
    (found = "present" /\ Len(TokensRead) >= 2 /\ BadTokens # {}) =>
        /\ pc = "done"
        /\ ok = "false"
        /\ \E n \in BadTokens :
              errorMessage = << TokensRead[n], " is an invalid input" >>

\* The result lines and error messages of the response, in order.
Outcome == SelectSeq(response, LAMBDA e : e \in { "result", "error" })

\* The handler's goroutine has ended: by its return, or by a panic.
Finished == pc \in { "done", "panic" }

AllPositive ==
    \A a \in 1..2, d \in 1..2 : matSizes[a][d] > 0

\* C11: whenever validation succeeds both sizes have rows and cols strictly
\* positive, so createMat and matrixMultiply are only ever called with
\* strictly positive dimensions, and they do not fail.
C11_PositiveDimensions ==
    /\ ok = "true" => AllPositive
    /\ (generated > 0 \/ pc \in { "createMatAndMultiply", "createMat2",
                                  "makeChan", "matrixMultiply", "spawn",
                                  "drain" }) => AllPositive
    /\ (ok = "true" /\ isTrue = "true") => pc # "panic"

\* A dotProduct goroutine that has not sent.
SomeRunning == \E t \in 1..Len(tasks) : tasks[t].state = "running"

\* matrixMultiply waits in a receive with nothing to receive.
Blocked == pc = "drain" /\ ~DrainDone /\ sumCh = <<>>

\* C12: while a spawned task has not published its result matrixMultiply
\* has not returned, and if a task never publishes, matrixMultiply drains
\* every result that was published and then stays blocked in its receive for
\* ever: no total is produced.
C12_BlocksForever ==
    /\ [](SomeRunning => ~Returned)
    /\ (<>[]SomeRunning) => <>[](Blocked /\ ~Returned)

\* matrixMultiply has received three results and waits for the fourth,
\* which its task has not sent.
C12_Witness ==
    /\ Blocked
    /\ Len(tasks) = 4
    /\ Drained = 3
    /\ SomeRunning

\* C13: every response holds the form followed by at most one of a result
\* line and an error message: a request (whose form parses) with no form
\* field gets neither, one whose sizes pass both validation steps gets a
\* result line and no error, and one that fails validation gets exactly one
\* error message and no result line.
C13_OneOutcome ==
    (Finished /\ ~formErr) =>
        /\ SubSeq(response, 1, 2) = <<"pageTop", "form">>
        /\ IF formKeys = {} THEN Outcome = <<>>
           ELSE IF ok = "true" /\ isTrue = "true" THEN Outcome = <<"result">>
           ELSE Outcome = <<"error">>

\* C14: the capacity of sumCh is the number of tasks matrixMultiply spawns,
\* rows_A * cols_B, so the queue never holds more than that and the send of
\* every task that has not yet sent is enabled, whether or not
\* matrixMultiply has begun to receive.
C14_SendNeverBlocks ==
    Multiplying =>
        /\ chanCap = OutRows * OutCols
        /\ Len(tasks) <= chanCap
        /\ Len(sumCh) <= chanCap
        /\ \A t \in 1..Len(tasks) :
              tasks[t].state = "running" => (CanSend /\ ENABLED DotProduct(t))

\* Every task has sent before matrixMultiply received anything.
C14_Witness ==
    /\ pc = "drain"
    /\ Drained = 0
    /\ chanCap = 4
    /\ Len(sumCh) = 4

RECURSIVE CellsTotalOf(_, _, _)
\* The sum of what dotProduct sends for the first n cells of m1 * m2.
CellsTotalOf(m1, m2, n) ==
    IF n = 0 THEN 0
    ELSE dotProduct(m1, m2, (n - 1) \div Len(m2[1]), (n - 1) % Len(m2[1]))
         + CellsTotalOf(m1, m2, n - 1)

Started(r) == invocations[r].pc # "idle"

\* C15: requests are isolated: requests served at the same time have
\* different queues, every value in the queue of request r was sent by a
\* task of r and every value r's matrixMultiply received was sent by a task
\* of r, and the total r returns is the sum of what dotProduct computes for
\* the cells of r's own two matrices, in every interleaving.
C15_Isolated ==
    \A r \in Requests :
        Started(r) =>
            LET f == invocations[r]
            IN  /\ \A q \in Requests \ { r } :
                      Started(q) => invocations[q].sumCh # f.sumCh
                /\ \A t \in 1..Len(f.tasks) : f.tasks[t].ch = f.sumCh
                /\ \A n \in 1..Len(chans[f.sumCh].buf) :
                      chans[f.sumCh].buf[n].from = r
                /\ \A n \in 1..Len(f.received) : f.received[n] = r
                /\ f.pc = "done" =>
                      f.result = CellsTotalOf(f.mat1, f.mat2,
                                              Len(f.mat1) * Len(f.mat2[1]))

\* Two requests are multiplying at once, with different matrices, each with
\* a result received and a result waiting in its queue.
C15_Witness ==
    /\ \A r \in Requests :
          /\ invocations[r].pc = "drain"
          /\ Len(invocations[r].received) = 1
          /\ Len(chans[invocations[r].sumCh].buf) = 1
    /\ invocations[1].mat2 # invocations[2].mat2
    /\ invocations[1].sum # invocations[2].sum

\* C16: for every request whose form parses the handler runs to its end
\* without a run-time fault, and has then written the page's top, the form,
\* at most one result or error, and the page's bottom.
C16_Total ==
    ~formErr =>
        /\ pc # "panic"
        /\ pc = "done" =>
              response \in { <<"pageTop", "form", "pageBottom">>,
                             <<"pageTop", "form", "result", "pageBottom">>,
                             <<"pageTop", "form", "error", "pageBottom">> }

\* The response of viewHandler for a page that loads, and its redirect.
ViewPage(title) == [status |-> "OK", template |-> "view.html", Title |-> title]
EditRedirect(title) ==
    [status |-> "Found", location |-> <<"/", "e", "d", "i", "t", "/">> \o title]

\* The request w has saved its page and been redirected to it.
Saved(w) ==
    /\ wikiRequests[w].handler = "saveHandler"
    /\ wikiRequests[w].pc = "done"
    /\ wikiRequests[w].response.status = "Found"

\* C17: a view request for a valid title whose page does not exist is
\* answered by the redirect to /edit/<title> and renders nothing; one whose
\* page exists is answered by the page and no redirect; the page of a title
\* whose save has completed exists.
C17_ViewOrEdit ==
    /\ [][\A w \in WikiRequests :
            (wikiRequests[w].pc = "viewHandler" /\ wikiRequests'[w].pc = "done")
                => wikiRequests'[w].response =
                      IF FileName(wikiRequests[w].title) \in files
                      THEN ViewPage(wikiRequests[w].title)
                      ELSE EditRedirect(wikiRequests[w].title)]_vars
    /\ [](\A w \in WikiRequests :
            Saved(w) => FileName(wikiRequests[w].title) \in files)

\* A page was saved under a title the index did not hold, and then viewed.
C17_Witness ==
    \E w, v \in WikiRequests :
        /\ Saved(w)
        /\ Len(Split(availableTitlesPattern, "|")) = 2
        /\ wikiRequests[v].handler = "viewHandler"
        /\ wikiRequests[v].pc = "done"
        /\ wikiRequests[v].title = wikiRequests[w].title
        /\ wikiRequests[v].response = ViewPage(wikiRequests[w].title)

\* path is /kind/title with kind one of edit, save, view and title one or
\* more letters and digits.
MatchesValidPath(path, kind, title) ==
    /\ kind \in PathKinds
    /\ title # <<>>
    /\ \A n \in 1..Len(title) : title[n] \in TitleChars
    /\ path = <<"/">> \o kind \o <<"/">> \o title

IsValidPath(path) ==
    \E kind \in PathKinds :
    \E n \in 1..Len(path) :
        MatchesValidPath(path, kind, SubSeq(path, n, Len(path)))

\* C18: a request whose path does not match the valid edit/save/view title
\* pattern is answered NotFound and its wrapped handler is never called; for
\* one whose path matches, the wrapped handler is called exactly once, with
\* the title of the path.
C18_RoutingGuard ==
    \A w \in WikiRequests :
        LET q == wikiRequests[w]
        IN  IF q.pc \in { "idle", "makeHandler" } THEN q.calls = 0
            ELSE IF IsValidPath(q.path)
            THEN /\ q.calls = 1
                 /\ \E kind \in PathKinds :
                       MatchesValidPath(q.path, kind, q.title)
                 /\ q.response.status # "NotFound"
            ELSE /\ q.calls = 0
                 /\ q.pc = "done"
                 /\ q.response = [status |-> "NotFound"]
                 /\ q.title = <<>>

\* One request was refused for a path that begins as a valid one, the other
\* was handed to its handler.
C18_Witness ==
    /\ wikiRequests[1].pc = "done"
    /\ wikiRequests[1].path = <<"/", "s", "a", "v", "e", "/", "a", "/", "b">>
    /\ wikiRequests[1].response = [status |-> "NotFound"]
    /\ wikiRequests[2].calls = 1
    /\ wikiRequests[2].title = <<"b">>

\* The alternatives of availableTitlesPattern.
Alternatives == Split(availableTitlesPattern, "|")

\* The request w is between saveHandler's test of the map and the end of
\* its two updates.
Updating(w) ==
    wikiRequests[w].pc \in { "updateWikiTitleList", "readPattern",
                            "writePattern", "compile" }

\* C19: in every state reached by interleaved save requests (taken here
\* when no request is in the middle of its update) the alternatives of
\* availableTitlesPattern are the keys of availableWikiTitles, each title
\* occurs in the pattern once, and availableTitlesRegExp is compiled from
\* the current pattern.
C19_IndexConsistent ==
    (\A w \in WikiRequests : ~Updating(w)) =>
        /\ { Alternatives[n] : n \in 1..Len(Alternatives) } = availableWikiTitles
        /\ \A n, m \in 1..Len(Alternatives) :
              Alternatives[n] = Alternatives[m] => n = m
        /\ availableTitlesRegExp = Compile(availableTitlesPattern)

\* C20: when writing the page file fails saveHandler answers with an
\* internal server error and no redirect and leaves availableWikiTitles,
\* availableTitlesPattern and availableTitlesRegExp as they were; a title
\* enters the index only by a request whose write succeeded.
C20_FailedSaveKeepsIndex ==
    /\ [][\A w \in WikiRequests :
            (~wikiRequests[w].saveErr /\ wikiRequests'[w].saveErr)
                => /\ UNCHANGED indexVars
                   /\ wikiRequests'[w].response = [status |-> "InternalServerError"]
                   /\ wikiRequests'[w].pc = "done"]_vars
    /\ [](\A w \in WikiRequests :
            wikiRequests[w].saveErr
                => /\ wikiRequests[w].pc = "done"
                   /\ wikiRequests[w].response = [status |-> "InternalServerError"])
    /\ [][indexVars' # indexVars =>
            \E w \in WikiRequests :
                /\ wikiRequests'[w].pc # wikiRequests[w].pc
                /\ ~wikiRequests[w].saveErr
                /\ FileName(wikiRequests[w].title) \in files]_vars
    /\ [](\A title \in availableWikiTitles : FileName(title) \in files)

\* A save of a new title failed, and the index does not hold the title.
C20_Witness ==
    \E w \in WikiRequests :
        /\ wikiRequests[w].saveErr
        /\ wikiRequests[w].pc = "done"
        /\ wikiRequests[w].title \notin availableWikiTitles
        /\ Len(Alternatives) = 1

====
